---------------------------- MODULE Spec2Model ----------------------------
(***************************************************************************)
(* Model of src/src/deltamaster_merge.py: the TopM / Addison KPI pipeline  *)
(* of main().  One run of the script is one behaviour: the two input       *)
(* workbooks are fixed in the initial state and every numbered section of  *)
(* main() is one action.                                                   *)
(*                                                                         *)
(* Numbers are pandas float64 cells.  A cell is modelled as an exact       *)
(* rational n/d in lowest terms, or one of the IEEE specials NaN, +inf,    *)
(* -inf (binary rounding error of float64 is not modelled).                *)
(* Strings that the code slices or sorts (Filiale, KSt) are sequences of   *)
(* one-character strings; column names and category names are strings.     *)
(* A column name holding a line break in the source is written without it. *)
(***************************************************************************)
EXTENDS Integers, Sequences, FiniteSets, TLC

VARIABLES pc, topmFile, addisonFile, df, df_clean, df_filiale, df2, df2_new,
          df_merged, outFile, error

vars == <<pc, topmFile, addisonFile, df, df_clean, df_filiale, df2, df2_new,
          df_merged, outFile, error>>

-----------------------------------------------------------------------------
(* float64 cells                                                           *)

Abs(i) == IF i < 0 THEN -i ELSE i

Sign(i) == IF i < 0 THEN -1 ELSE IF i > 0 THEN 1 ELSE 0

RECURSIVE Gcd(_, _)
Gcd(a, b) == IF b = 0 THEN a ELSE Gcd(b, a % b)

NaN == [k |-> "nan", n |-> 0, d |-> 1]

Inf(s) == [k |-> "inf", n |-> s, d |-> 1]

\* the finite value n/d (d # 0), in lowest terms with a positive denominator
Fin(n, d) ==
    LET g == Gcd(Abs(n), Abs(d))
        s == Sign(d)
    IN  [k |-> "fin", n |-> (s * n) \div g, d |-> Abs(d) \div g]

Num(i) == Fin(i, 1)

IsNull(x) == x.k = "nan"

IsFinite(x) == x.k = "fin"

\* float64 addition
FAdd(a, b) ==
    IF IsNull(a) \/ IsNull(b) THEN NaN
    ELSE IF a.k = "inf" /\ b.k = "inf" THEN (IF a.n = b.n THEN a ELSE NaN)
    ELSE IF a.k = "inf" THEN a
    ELSE IF b.k = "inf" THEN b
    ELSE Fin(a.n * b.d + b.n * a.d, a.d * b.d)

\* float64 negation
FNeg(a) == IF IsFinite(a) THEN Fin(-a.n, a.d) ELSE IF IsNull(a) THEN NaN ELSE Inf(-a.n)

\* float64 subtraction
FSub(a, b) == FAdd(a, FNeg(b))

\* float64 multiplication: 0 * inf is NaN
FMul(a, b) ==
    IF IsNull(a) \/ IsNull(b) THEN NaN
    ELSE IF a.k = "inf" \/ b.k = "inf"
         THEN (IF Sign(a.n) * Sign(b.n) = 0 THEN NaN ELSE Inf(Sign(a.n) * Sign(b.n)))
    ELSE Fin(a.n * b.n, a.d * b.d)

\* float64 true division as pandas does it element-wise: x/0 is +-inf for
\* x # 0 and NaN for x = 0; no exception is raised
FDiv(a, b) ==
    IF IsNull(a) \/ IsNull(b) THEN NaN
    ELSE IF a.k = "inf" THEN (IF b.k = "inf" THEN NaN
                              ELSE Inf(IF b.n < 0 THEN -a.n ELSE a.n))
    ELSE IF b.k = "inf" THEN Num(0)
    ELSE IF b.n = 0 THEN (IF a.n = 0 THEN NaN ELSE Inf(Sign(a.n)))
    ELSE Fin(a.n * b.d, a.d * b.n)

\* floor of the rational n/d, d > 0
Floor(n, d) == n \div d

\* numpy round to 0 decimals: nearest integer, a tie goes to the even one;
\* NaN and infinities pass through
FRound(a) ==
    IF ~IsFinite(a) THEN a
    ELSE LET f == Floor(a.n, a.d)
             twice == 2 * (a.n - f * a.d)
         IN  IF twice < a.d THEN Num(f)
             ELSE IF twice > a.d THEN Num(f + 1)
             ELSE IF f % 2 = 0 THEN Num(f) ELSE Num(f + 1)

-----------------------------------------------------------------------------
(* strings                                                                 *)

\* the characters the modelled branch names use, in code point order
Alphabet == <<" ", "0", "1", "2", "3", "A", "B", "C", "a", "n">>

Ord(c) == CHOOSE i \in 1..Len(Alphabet) : Alphabet[i] = c

\* Python's < on str: lexicographic by code point, a proper prefix is smaller
RECURSIVE StrLess(_, _)
StrLess(s, t) ==
    IF t = <<>> THEN FALSE
    ELSE IF s = <<>> THEN TRUE
    ELSE IF Head(s) = Head(t) THEN StrLess(Tail(s), Tail(t))
    ELSE Ord(Head(s)) < Ord(Head(t))

\* a missing (NaN) text cell; read_excel never yields an empty string
NullStr == <<>>

\* .astype(str): a missing cell becomes the text "nan"
AsStr(s) == IF s = NullStr THEN <<"n", "a", "n">> ELSE s

KStLen == 5

\* .str[:5]: the first five characters, or the whole string when shorter
First5(s) == SubSeq(s, 1, IF Len(s) < KStLen THEN Len(s) ELSE KStLen)

-----------------------------------------------------------------------------
(* column names and domain constants of main()                             *)

colHilfsmittel == "Hilfsmittel"
colFiliale == "Filiale"
colKSt == "KSt"
colUmsatz == "(1) Umsatz-berechnung"
colDBI == "(6) DB I = (1) - (5)"
colAPDBI == "AP DB I mit FP"
colPctDBI == "(7) DB I % = (6) / (1)"
colPctAP == "AP DB I % mit FP"
colMod == "Modifikationen"
colPctMod == "DB I % Modifikationen"
colMod0932 == "Modifikationen 09 & 32"
colPctMod0932 == "DB I % Modifikationen 09 & 32"
colUmsatzerloese == "Umsatzerlöse"
colAufwendungen == "Aufwendungen für bez. Lfg. und Lst."
colRohergebnis == "Rohergebnis"
colUmsatzerloeseKum == "Umsatzerlöse Kum"
colAufwendungenKum == "Aufwendungen für bez. Lfg. und Lst. Kum"
colFinal == "Aufwendungen final"

\* the rows dropped in section 3
excluded_hilfsmittel == {"Alle Hilfsmittel", "08 - Einlagen"}

\* the categories of section 5 (Modifikationen takes AP DB I mit FP)
hilfsmittel_10_18 == {"10 - Gehhilfen", "18 - Kranken-/ Behindertenfahrzeuge"}

\* the categories of section 5a (Modifikationen 09 & 32 is 0.80 * Umsatz)
hilfsmittel_09_32 == {"09 - Elektrostimulationsgeräte", "32 - Therapeutische Bewegungsgeräte"}

\* the factor 0.80 of section 5a
Factor080 == Fin(80, 100)

pct_cols == {colPctDBI, colPctAP, colPctMod, colPctMod0932}

relevant_arten == {colUmsatzerloese, colAufwendungen, colRohergebnis}

\* the columns main() reads by name from the TopM sheet
RequiredCols == {colUmsatz, colDBI, colAPDBI}

-----------------------------------------------------------------------------
(* tables: a set of column names and a sequence of rows (column -> cell)   *)

EmptyTable == [cols |-> {}, rows |-> <<>>]

NoError == [kind |-> "none", cols |-> {}]

Range(s) == {s[i] : i \in DOMAIN s}

\* df[name] = cells: the column assigned (or replaced), one cell per row
WithColumn(t, name, cells) ==
    [cols |-> t.cols \cup {name},
     rows |-> [i \in DOMAIN t.rows |->
                 [c \in (DOMAIN t.rows[i]) \cup {name} |->
                     IF c = name THEN cells[i] ELSE t.rows[i][c]]]]

\* the header after df.rename of its first two columns
RenamedHeader(header) ==
    [i \in DOMAIN header |->
        IF i = 1 THEN colHilfsmittel ELSE IF i = 2 THEN colFiliale ELSE header[i]]

\* sections 1-2: the sheet as a table with its first two columns renamed by
\* position and KSt added
LoadedTopM(file) ==
    LET h == RenamedHeader(file.header)
        renamed == [cols |-> Range(h),
                    rows |-> [i \in DOMAIN file.rows |->
                                [c \in Range(h) |->
                                   file.rows[i][file.header[CHOOSE j \in DOMAIN h : h[j] = c]]]]]
    IN  WithColumn(renamed, colKSt,
                   [i \in DOMAIN renamed.rows |-> First5(AsStr(renamed.rows[i][colFiliale]))])

\* sections 1-2 of main(): read the TopM sheet, rename, extract KSt
ReadTopM ==
    /\ pc = "start"
    /\ \/ /\ ~topmFile.readable
          /\ pc' = "failed"
          /\ error' = [kind |-> "ReadError", cols |-> {}]
          /\ UNCHANGED df
       \/ /\ topmFile.readable
          /\ Len(topmFile.header) < 2
          /\ pc' = "failed"
          /\ error' = [kind |-> "IndexError", cols |-> {}]
          /\ UNCHANGED df
       \/ /\ topmFile.readable
          /\ Len(topmFile.header) >= 2
          /\ df' = LoadedTopM(topmFile)
          /\ pc' = "filter"
          /\ UNCHANGED error
    /\ UNCHANGED <<topmFile, addisonFile, df_clean, df_filiale, df2, df2_new, df_merged, outFile>>

\* FilteredRows with "08 - Einlagen" left out of the excluded categories
FilteredRowsOneCategory(t) ==
    [cols |-> t.cols,
     rows |-> SelectSeq(t.rows, LAMBDA r : r[colHilfsmittel] # "Alle Hilfsmittel")]

\* section 3: the rows whose Hilfsmittel is not excluded
FilteredRows(t) ==
    [cols |-> t.cols,
     rows |-> SelectSeq(t.rows, LAMBDA r : r[colHilfsmittel] \notin excluded_hilfsmittel)]

\* section 3 of main()
FilterHilfsmittel ==
    /\ pc = "filter"
    /\ df_clean' = FilteredRows(df)
    /\ pc' = "rowpct"
    /\ UNCHANGED <<topmFile, addisonFile, df, df_filiale, df2, df2_new, df_merged, outFile, error>>

\* numerator / Umsatz on one row
Ratio(r, numerator) == FDiv(r[numerator], r[colUmsatz])

\* df[numerator] / df[Umsatz], row by row
Ratios(t, numerator) == [i \in DOMAIN t.rows |-> Ratio(t.rows[i], numerator)]

\* section 4 of main(): the two row-level percent columns.  A column read by
\* name that the sheet lacks raises KeyError at the statement that reads it;
\* the column assigned by an earlier statement stays in df_clean.
RowPercent ==
    /\ pc = "rowpct"
    /\ \/ /\ colDBI \notin df_clean.cols
          /\ pc' = "failed"
          /\ error' = [kind |-> "KeyError", cols |-> {colDBI}]
          /\ UNCHANGED df_clean
       \/ /\ colDBI \in df_clean.cols
          /\ colUmsatz \notin df_clean.cols
          /\ pc' = "failed"
          /\ error' = [kind |-> "KeyError", cols |-> {colUmsatz}]
          /\ UNCHANGED df_clean
       \/ /\ {colDBI, colUmsatz} \subseteq df_clean.cols
          /\ colAPDBI \notin df_clean.cols
          /\ df_clean' = WithColumn(df_clean, colPctDBI, Ratios(df_clean, colDBI))
          /\ pc' = "failed"
          /\ error' = [kind |-> "KeyError", cols |-> {colAPDBI}]
       \/ /\ {colDBI, colUmsatz, colAPDBI} \subseteq df_clean.cols
          /\ df_clean' = WithColumn(WithColumn(df_clean, colPctDBI, Ratios(df_clean, colDBI)),
                                    colPctAP, Ratios(df_clean, colAPDBI))
          /\ pc' = "modifikationen"
          /\ UNCHANGED error
    /\ UNCHANGED <<topmFile, addisonFile, df, df_filiale, df2, df2_new, df_merged, outFile>>

\* ModifikationenValue testing the categories of section 5a instead
ModifikationenValueWrongSet(r) ==
    IF r[colHilfsmittel] \in hilfsmittel_09_32 THEN r[colAPDBI] ELSE r[colDBI]

\* section 5: AP DB I mit FP for the categories 10 and 18, DB I otherwise
ModifikationenValue(r) ==
    IF r[colHilfsmittel] \in hilfsmittel_10_18 THEN r[colAPDBI] ELSE r[colDBI]

\* section 5 of main(): Modifikationen and its percent column
Modifikationen ==
    /\ pc = "modifikationen"
    /\ LET with_mod == WithColumn(df_clean, colMod,
                                  [i \in DOMAIN df_clean.rows |->
                                      ModifikationenValue(df_clean.rows[i])])
       IN  df_clean' = WithColumn(with_mod, colPctMod, Ratios(with_mod, colMod))
    /\ pc' = "modifikationen0932"
    /\ UNCHANGED <<topmFile, addisonFile, df, df_filiale, df2, df2_new, df_merged, outFile, error>>

\* section 5a: Modifikationen, overwritten by Umsatz * 0.80 for the
\* categories 09 and 32
Modifikationen0932Value(r) ==
    IF r[colHilfsmittel] \in hilfsmittel_09_32
    THEN FMul(r[colUmsatz], Factor080)
    ELSE r[colMod]

\* section 5a of main(): Modifikationen 09 & 32 and its percent column
Modifikationen0932 ==
    /\ pc = "modifikationen0932"
    /\ LET with_mod == WithColumn(df_clean, colMod0932,
                                  [i \in DOMAIN df_clean.rows |->
                                      Modifikationen0932Value(df_clean.rows[i])])
       IN  df_clean' = WithColumn(with_mod, colPctMod0932, Ratios(with_mod, colMod0932))
    /\ pc' = "aggregate"
    /\ UNCHANGED <<topmFile, addisonFile, df, df_filiale, df2, df2_new, df_merged, outFile, error>>

\* a set of strings in ascending order
RECURSIVE SortedStrings(_)
SortedStrings(S) ==
    IF S = {} THEN <<>>
    ELSE LET m == CHOOSE x \in S : \A y \in S \ {x} : StrLess(x, y)
         IN  <<m>> \o SortedStrings(S \ {m})

\* Series.sum(): the NaN cells are skipped, an empty sum is 0
RECURSIVE SumCells(_)
SumCells(cells) ==
    IF cells = <<>> THEN Num(0)
    ELSE IF IsNull(Head(cells)) THEN SumCells(Tail(cells))
    ELSE FAdd(Head(cells), SumCells(Tail(cells)))

\* the cells of one column, in row order
Column(rows, c) == [i \in DOMAIN rows |-> rows[i][c]]

\* the rows of one KSt group, in row order
GroupRows(rows, kst) == SelectSeq(rows, LAMBDA r : r[colKSt] = kst)

\* the numeric columns that are summed: all but the text and percent columns
SumCols(t) == t.cols \ ({colHilfsmittel, colFiliale, colKSt} \cup pct_cols)

\* section 6: groupby("KSt", as_index=False)[sum_cols].sum(), one row per
\* KSt in ascending key order
GroupSum(t) ==
    LET keys == SortedStrings({t.rows[i][colKSt] : i \in DOMAIN t.rows})
    IN  [cols |-> {colKSt} \cup SumCols(t),
         rows |-> [g \in DOMAIN keys |->
                     [c \in {colKSt} \cup SumCols(t) |->
                         IF c = colKSt THEN keys[g]
                         ELSE SumCells(Column(GroupRows(t.rows, keys[g]), c))]]]

\* section 6 of main()
Aggregate ==
    /\ pc = "aggregate"
    /\ df_filiale' = GroupSum(df_clean)
    /\ pc' = "recompute"
    /\ UNCHANGED <<topmFile, addisonFile, df, df_clean, df2, df2_new, df_merged, outFile, error>>

\* RecomputedPct with the percent columns summed per KSt like the others
RecomputedPctSummingRatios(t) ==
    LET summed(c) == [g \in DOMAIN t.rows |->
                         SumCells(Column(GroupRows(df_clean.rows, t.rows[g][colKSt]), c))]
    IN  WithColumn(WithColumn(WithColumn(WithColumn(t,
            colPctDBI, summed(colPctDBI)),
            colPctAP, summed(colPctAP)),
            colPctMod, summed(colPctMod)),
            colPctMod0932, summed(colPctMod0932))

\* section 7: the four percent columns from the summed columns
RecomputedPct(t) ==
    WithColumn(WithColumn(WithColumn(WithColumn(t,
        colPctDBI, Ratios(t, colDBI)),
        colPctAP, Ratios(t, colAPDBI)),
        colPctMod, Ratios(t, colMod)),
        colPctMod0932, Ratios(t, colMod0932))

\* section 7 of main()
RecomputePct ==
    /\ pc = "recompute"
    /\ df_filiale' = RecomputedPct(df_filiale)
    /\ pc' = "mode"
    /\ UNCHANGED <<topmFile, addisonFile, df, df_clean, df2, df2_new, df_merged, outFile, error>>

\* how often v occurs in a sequence of cells
Occurrences(cells, v) == Cardinality({i \in DOMAIN cells : cells[i] = v})

\* Series.mode(): the most frequent non-missing values, in ascending order
Modes(cells) ==
    LET present == Range(cells) \ {NullStr}
    IN  SortedStrings({v \in present :
            \A w \in present : Occurrences(cells, w) <= Occurrences(cells, v)})

\* FirstMode taking the last of the modes
LastMode(cells) == Modes(cells)[Len(Modes(cells))]

\* x.mode().iloc[0]
FirstMode(cells) == Modes(cells)[1]

\* section 8 of main(): the representative Filiale of every KSt.  A group
\* with no Filiale text at all has an empty mode() and .iloc[0] raises
\* IndexError.
RepresentativeFiliale ==
    /\ pc = "mode"
    /\ LET filialen(kst) == Column(GroupRows(df_clean.rows, kst), colFiliale)
       IN  \/ /\ \E i \in DOMAIN df_filiale.rows :
                    Modes(filialen(df_filiale.rows[i][colKSt])) = <<>>
              /\ pc' = "failed"
              /\ error' = [kind |-> "IndexError", cols |-> {}]
              /\ UNCHANGED df_filiale
           \/ /\ \A i \in DOMAIN df_filiale.rows :
                    Modes(filialen(df_filiale.rows[i][colKSt])) # <<>>
              /\ df_filiale' = WithColumn(df_filiale, colFiliale,
                                          [i \in DOMAIN df_filiale.rows |->
                                              FirstMode(filialen(df_filiale.rows[i][colKSt]))])
              /\ pc' = "addison"
              /\ UNCHANGED error
    /\ UNCHANGED <<topmFile, addisonFile, df, df_clean, df2, df2_new, df_merged, outFile>>

-----------------------------------------------------------------------------
(* the Addison sheet                                                       *)

\* df2.rename(columns={0: "Filiale", 2: "Art", 3: "Wert4", 5: "Wert6"})
addison_names == [Filiale |-> 0, Art |-> 2, Wert4 |-> 3, Wert6 |-> 5]

\* section 9: the columns main() later reads, named by position, with KSt
LoadedAddison(file) ==
    LET named == {c \in DOMAIN addison_names : addison_names[c] < file.ncols}
        t == [cols |-> named,
              rows |-> [i \in DOMAIN file.rows |->
                          [c \in named |-> file.rows[i][addison_names[c]]]]]
    IN  WithColumn(t, colKSt, [i \in DOMAIN t.rows |-> First5(AsStr(t.rows[i][colFiliale]))])

\* section 9 of main(): read the Addison sheet; df2["Filiale"] raises
\* KeyError on a sheet without columns
ReadAddison ==
    /\ pc = "addison"
    /\ \/ /\ ~addisonFile.readable
          /\ pc' = "failed"
          /\ error' = [kind |-> "ReadError", cols |-> {}]
          /\ UNCHANGED df2
       \/ /\ addisonFile.readable
          /\ addisonFile.ncols = 0
          /\ pc' = "failed"
          /\ error' = [kind |-> "KeyError", cols |-> {colFiliale}]
          /\ UNCHANGED df2
       \/ /\ addisonFile.readable
          /\ addisonFile.ncols > 0
          /\ df2' = LoadedAddison(addisonFile)
          /\ pc' = "pivot"
          /\ UNCHANGED error
    /\ UNCHANGED <<topmFile, addisonFile, df, df_clean, df_filiale, df2_new, df_merged, outFile>>

\* pivot_table(index="KSt", columns="Art", values=value, aggfunc="sum"):
\* one row per KSt and one column per Art that occur in the rows; a
\* (KSt, Art) pair without rows is NaN
PivotTable(rows, value) ==
    LET keys == SortedStrings({rows[i][colKSt] : i \in DOMAIN rows})
        arten == {rows[i]["Art"] : i \in DOMAIN rows}
        cells(kst, art) == SelectSeq(rows, LAMBDA r : r[colKSt] = kst /\ r["Art"] = art)
    IN  [cols |-> {colKSt} \cup arten,
         rows |-> [g \in DOMAIN keys |->
                     [c \in {colKSt} \cup arten |->
                         IF c = colKSt THEN keys[g]
                         ELSE IF cells(keys[g], c) = <<>> THEN NaN
                         ELSE SumCells(Column(cells(keys[g], c), value))]]]

\* pivot6.get(art), aligned on the KSt index of pivot4: the column, or None
\* (an all-missing column) when pivot6 has no such column
KumCell(pivot6, kst, art) ==
    IF art \notin pivot6.cols THEN NaN
    ELSE LET hit == SelectSeq(pivot6.rows, LAMBDA r : r[colKSt] = kst)
         IN  IF hit = <<>> THEN NaN ELSE hit[1][art]

\* section 10: the wide Addison table
Reshaped(t) ==
    LET df_sub == SelectSeq(t.rows, LAMBDA r : r["Art"] \in relevant_arten)
        pivot4 == PivotTable(df_sub, "Wert4")
        pivot6 == PivotTable(df_sub, "Wert6")
        kum(art) == [i \in DOMAIN pivot4.rows |-> KumCell(pivot6, pivot4.rows[i][colKSt], art)]
    IN  WithColumn(WithColumn(pivot4,
            colUmsatzerloeseKum, kum(colUmsatzerloese)),
            colAufwendungenKum, kum(colAufwendungen))

\* section 10 of main(): filter the relevant Arten and pivot; a column the
\* sheet is too narrow for raises KeyError
PivotAddison ==
    /\ pc = "pivot"
    /\ \/ /\ ~({"Art", "Wert4", "Wert6"} \subseteq df2.cols)
          /\ pc' = "failed"
          /\ error' = [kind |-> "KeyError",
                       cols |-> {CHOOSE c \in {"Art", "Wert4", "Wert6"} :
                                   /\ c \notin df2.cols
                                   /\ \A o \in {"Art", "Wert4", "Wert6"} \ df2.cols :
                                         addison_names[c] <= addison_names[o]}]
          /\ UNCHANGED df2_new
       \/ /\ {"Art", "Wert4", "Wert6"} \subseteq df2.cols
          /\ df2_new' = Reshaped(df2)
          /\ pc' = "merge"
          /\ UNCHANGED error
    /\ UNCHANGED <<topmFile, addisonFile, df, df_clean, df_filiale, df2, df_merged, outFile>>

\* section 11: df_filiale.merge(df2_new, on="KSt", how="left"); the right
\* table has one row per KSt
LeftMerge(left, right) ==
    LET match(kst) == SelectSeq(right.rows, LAMBDA r : r[colKSt] = kst)
    IN  [cols |-> left.cols \cup right.cols,
         rows |-> [i \in DOMAIN left.rows |->
                     [c \in left.cols \cup right.cols |->
                         IF c \in left.cols THEN left.rows[i][c]
                         ELSE IF match(left.rows[i][colKSt]) = <<>> THEN NaN
                         ELSE match(left.rows[i][colKSt])[1][c]]]]

\* section 11 of main()
Merge ==
    /\ pc = "merge"
    /\ df_merged' = LeftMerge(df_filiale, df2_new)
    /\ pc' = "final"
    /\ UNCHANGED <<topmFile, addisonFile, df, df_clean, df_filiale, df2, df2_new, outFile, error>>

\* .fillna(0) on one cell
FillNa0(x) == IF IsNull(x) THEN Num(0) ELSE x

\* df_merged[c].fillna(0)
Filled(t, c) == [i \in DOMAIN t.rows |-> FillNa0(t.rows[i][c])]

\* AufwendungenFinalValue cutting the fraction off instead of rounding
AufwendungenFinalValueTruncated(r) ==
    LET x == FAdd(FMul(r[colUmsatzerloese], FSub(Num(1), r[colPctMod])),
                  r[colAufwendungen])
    IN  IF IsFinite(x) THEN Num(Floor(x.n, x.d)) ELSE x

\* Umsatzerlöse * (1 - DB I % Modifikationen) + Aufwendungen, .round(0)
AufwendungenFinalValue(r) ==
    FRound(FAdd(FMul(r[colUmsatzerloese], FSub(Num(1), r[colPctMod])),
                r[colAufwendungen]))

\* section 12 of main().  df_merged.get(col, 0) is the int 0 when the merged
\* table has no such column, and 0 .fillna raises AttributeError.
AufwendungenFinal ==
    /\ pc = "final"
    /\ \/ /\ colUmsatzerloese \notin df_merged.cols
          /\ pc' = "failed"
          /\ error' = [kind |-> "AttributeError", cols |-> {colUmsatzerloese}]
          /\ UNCHANGED df_merged
       \/ /\ colUmsatzerloese \in df_merged.cols
          /\ colAufwendungen \notin df_merged.cols
          /\ df_merged' = WithColumn(df_merged, colUmsatzerloese,
                                     Filled(df_merged, colUmsatzerloese))
          /\ pc' = "failed"
          /\ error' = [kind |-> "AttributeError", cols |-> {colAufwendungen}]
       \/ /\ {colUmsatzerloese, colAufwendungen} \subseteq df_merged.cols
          /\ LET filled == WithColumn(WithColumn(df_merged,
                                colUmsatzerloese, Filled(df_merged, colUmsatzerloese)),
                                colAufwendungen, Filled(df_merged, colAufwendungen))
             IN  df_merged' = WithColumn(filled, colFinal,
                                         [i \in DOMAIN filled.rows |->
                                             AufwendungenFinalValue(filled.rows[i])])
          /\ pc' = "format"
          /\ UNCHANGED error
    /\ UNCHANGED <<topmFile, addisonFile, df, df_clean, df_filiale, df2, df2_new, outFile>>

\* f"{x * 100:.1f}%" if pd.notnull(x) else "": the text of the percentage
\* with one decimal (n tenths of a percent, nearest, ties to even), the
\* text "inf%" or "-inf%" for an infinity, the empty text for a missing cell
PercentText(x) ==
    IF IsNull(x) THEN [k |-> "empty", n |-> 0, d |-> 1]
    ELSE IF ~IsFinite(x) THEN [k |-> "inftext", n |-> x.n, d |-> 1]
    ELSE [k |-> "text", n |-> FRound(FMul(x, Num(1000))).n, d |-> 10]

\* section 13: the four percent columns as text
Formatted(t) ==
    LET text(c) == [i \in DOMAIN t.rows |-> PercentText(t.rows[i][c])]
    IN  WithColumn(WithColumn(WithColumn(WithColumn(t,
            colPctDBI, text(colPctDBI)),
            colPctAP, text(colPctAP)),
            colPctMod, text(colPctMod)),
            colPctMod0932, text(colPctMod0932))

\* section 13 of main()
FormatPct ==
    /\ pc = "format"
    /\ df_merged' = Formatted(df_merged)
    /\ pc' = "export"
    /\ UNCHANGED <<topmFile, addisonFile, df, df_clean, df_filiale, df2, df2_new, outFile, error>>

\* section 14: the export column order
final_cols ==
    <<colKSt, colFiliale, "Aufträge", colUmsatz, "(2) Netto EK", "(3) Netto EK Ohne WK",
      "(4) WK EK", "AP_EK_Verrechnung_WK_mit_FP", "(5) = (3) + (4)", colDBI, colAPDBI,
      colMod, colMod0932, colPctDBI, colPctAP, colPctMod, colPctMod0932,
      colUmsatzerloese, colAufwendungen, colRohergebnis, colUmsatzerloeseKum,
      colAufwendungenKum, colFinal>>

\* section 16: the highlighted columns
columns_to_color == {colFinal, colPctMod}

NoFile == [exists |-> FALSE, header |-> <<>>, rows |-> <<>>, highlighted |-> {}]

\* a workbook left at the output path by an earlier run
OldFile == [exists |-> TRUE, header |-> <<"earlier report">>, rows |-> <<>>, highlighted |-> {}]

\* sections 14-15: the workbook to_excel writes, not yet highlighted
Workbook(t) ==
    LET header == SelectSeq(final_cols, LAMBDA c : c \in t.cols)
    IN  [exists |-> TRUE,
         header |-> header,
         rows |-> [i \in DOMAIN t.rows |-> [c \in Range(header) |-> t.rows[i][c]]],
         highlighted |-> {}]

\* sections 14-15 of main(): select the export columns and write the
\* workbook; the write can fail in the file system (OSError)
ExportExcel ==
    /\ pc = "export"
    /\ \/ /\ outFile' = Workbook(df_merged)
          /\ pc' = "highlight"
          /\ UNCHANGED error
       \/ /\ pc' = "failed"
          /\ error' = [kind |-> "OSError", cols |-> {}]
          /\ UNCHANGED outFile
    /\ UNCHANGED <<topmFile, addisonFile, df, df_clean, df_filiale, df2, df2_new, df_merged>>

\* section 16 of main(): reopen the written workbook, fill the two columns,
\* save it again; load_workbook or wb.save can fail in the file system and
\* the workbook written in section 15 stays as it is
Highlight ==
    /\ pc = "highlight"
    /\ \/ /\ outFile' = [outFile EXCEPT
                            !.highlighted = columns_to_color \cap Range(outFile.header)]
          /\ pc' = "done"
          /\ UNCHANGED error
       \/ /\ pc' = "failed"
          /\ error' = [kind |-> "OSError", cols |-> {}]
          /\ UNCHANGED outFile
    /\ UNCHANGED <<topmFile, addisonFile, df, df_clean, df_filiale, df2, df2_new, df_merged>>

-----------------------------------------------------------------------------
(* the input workbooks of a run                                            *)

\* the longest TopM sheet with varied categories and figures
MaxRows == 2

\* the longest TopM sheet with varied branch names
MaxBranchRows == 3

\* the longest Addison sheet
MaxAddisonRows == 2

Filiale10001A == <<"1", "0", "0", "0", "1", " ", "A">>
Filiale10001B == <<"1", "0", "0", "0", "1", " ", "B">>
Filiale10002A == <<"1", "0", "0", "0", "2", " ", "A">>
Filiale10003A == <<"1", "0", "0", "0", "3", " ", "A">>

\* the header texts of the first two TopM columns, renamed by position
topm_first_cols == <<"Unnamed: 0", "Unnamed: 1">>

TopMHeader == topm_first_cols \o <<colUmsatz, colDBI, colAPDBI>>

\* one TopM data row under the header cols: category, branch and the figures
\* <<Umsatz, DB I, AP DB I mit FP>>
TopMRow(cols, hilfsmittel, filiale, fig) ==
    [c \in Range(cols) |->
        IF c = topm_first_cols[1] THEN hilfsmittel
        ELSE IF c = topm_first_cols[2] THEN filiale
        ELSE IF c = colUmsatz THEN Num(fig[1])
        ELSE IF c = colDBI THEN Num(fig[2])
        ELSE Num(fig[3])]

TopMFile(cols, rows) == [readable |-> TRUE, header |-> cols, rows |-> rows]

\* one Addison data row: branch, Art, Wert4, Wert6 at positions 0, 2, 3, 5
AddisonRow(filiale, art, wert4, wert6) ==
    (0 :> filiale) @@ (2 :> art) @@ (3 :> Num(wert4)) @@ (5 :> Num(wert6))

AddisonWidth == 6

AddisonFile(rows) == [readable |-> TRUE, ncols |-> AddisonWidth, rows |-> rows]

\* the sequences over S of length lo..hi
SeqsOf(S, lo, hi) == UNION {[1..k -> S] : k \in lo..hi}

Categories ==
    {"Alle Hilfsmittel", "08 - Einlagen", "10 - Gehhilfen",
     "09 - Elektrostimulationsgeräte", "01 - Absauggeräte"}

Figures == {<<1, 1, 0>>, <<2, 0, 1>>, <<0, 1, 0>>, <<0, 0, 0>>}

SampleAddison ==
    AddisonFile(<<AddisonRow(Filiale10001A, colUmsatzerloese, 3, 1),
                  AddisonRow(Filiale10001A, colAufwendungen, 1, 1),
                  AddisonRow(Filiale10003A, colRohergebnis, 2, 1)>>)

\* sheets of one cost center with every category and figure
KpiTopMFiles ==
    {TopMFile(TopMHeader, rows) :
        rows \in SeqsOf({TopMRow(TopMHeader, h, Filiale10001A, f) :
                            h \in Categories, f \in Figures}, 1, MaxRows)}

\* sheets of several branches, some rows excluded, some without branch text
BranchTopMFiles ==
    {TopMFile(TopMHeader, rows) :
        rows \in SeqsOf({TopMRow(TopMHeader, h, b, <<2, 1, 1>>) :
                            h \in {"01 - Absauggeräte", "Alle Hilfsmittel"},
                            b \in {Filiale10001A, Filiale10001B, Filiale10002A, NullStr}},
                        1, MaxBranchRows)}

\* two sheets for the merge: one cost center with DB I % Modifikationen 1/2,
\* and two cost centers, one with DB I % Modifikationen 1/3 and one without
\* Umsatz
MergeTopMFiles ==
    {TopMFile(TopMHeader, <<TopMRow(TopMHeader, "01 - Absauggeräte", Filiale10001A, <<2, 1, 1>>)>>),
     TopMFile(TopMHeader, <<TopMRow(TopMHeader, "01 - Absauggeräte", Filiale10001A, <<1, 1, 0>>),
                            TopMRow(TopMHeader, "10 - Gehhilfen", Filiale10001B, <<2, 1, 0>>),
                            TopMRow(TopMHeader, "01 - Absauggeräte", Filiale10002A, <<0, 0, 0>>)>>)}

AddisonFiles ==
    {AddisonFile(rows) :
        rows \in SeqsOf({AddisonRow(b, art, w, 1) :
                            b \in {Filiale10001A, Filiale10003A},
                            art \in relevant_arten \cup {"Sonstige Erträge"},
                            w \in {1, 3}}, 0, MaxAddisonRows)}

\* sheets that lack required columns, or have a single column
SchemaTopMFiles ==
    {TopMFile(topm_first_cols \o present,
              <<TopMRow(topm_first_cols \o present, "01 - Absauggeräte", Filiale10001A, <<2, 1, 1>>)>>) :
        present \in {<<>>, <<colUmsatz>>, <<colDBI>>, <<colAPDBI>>, <<colUmsatz, colDBI>>,
                     <<colUmsatz, colAPDBI>>, <<colDBI, colAPDBI>>}}
    \cup {TopMFile(<<topm_first_cols[1]>>,
                   <<TopMRow(<<topm_first_cols[1]>>, "01 - Absauggeräte", NullStr, <<0, 0, 0>>)>>),
          [readable |-> FALSE, header |-> <<>>, rows |-> <<>>]}

\* Addison workbooks that cannot be read or are too narrow
BrokenAddisonFiles ==
    {[readable |-> FALSE, ncols |-> 0, rows |-> <<>>]}
    \cup {[readable |-> TRUE, ncols |-> w,
           rows |-> <<[p \in {q \in {0, 2, 3, 5} : q < w} |->
                          AddisonRow(Filiale10001A, colUmsatzerloese, 1, 1)[p]]>>] :
            w \in {0, 2, 3, 5}}

SampleTopM ==
    TopMFile(TopMHeader, <<TopMRow(TopMHeader, "01 - Absauggeräte", Filiale10001A, <<2, 1, 1>>)>>)

Init ==
    /\ pc = "start"
    /\ \/ topmFile \in KpiTopMFiles /\ addisonFile = SampleAddison /\ outFile = NoFile
       \/ topmFile \in BranchTopMFiles /\ addisonFile = SampleAddison /\ outFile = OldFile
       \/ topmFile \in MergeTopMFiles /\ addisonFile \in AddisonFiles /\ outFile = NoFile
       \/ topmFile \in SchemaTopMFiles /\ addisonFile = SampleAddison /\ outFile \in {NoFile, OldFile}
       \/ topmFile = SampleTopM /\ addisonFile \in BrokenAddisonFiles /\ outFile \in {NoFile, OldFile}
    /\ df = EmptyTable
    /\ df_clean = EmptyTable
    /\ df_filiale = EmptyTable
    /\ df2 = EmptyTable
    /\ df2_new = EmptyTable
    /\ df_merged = EmptyTable
    /\ error = NoError

Next ==
    \/ ReadTopM
    \/ FilterHilfsmittel
    \/ RowPercent
    \/ Modifikationen
    \/ Modifikationen0932
    \/ Aggregate
    \/ RecomputePct
    \/ RepresentativeFiliale
    \/ ReadAddison
    \/ PivotAddison
    \/ Merge
    \/ AufwendungenFinal
    \/ FormatPct
    \/ ExportExcel
    \/ Highlight

Spec == Init /\ [][Next]_vars

-----------------------------------------------------------------------------
(* vocabulary of the properties                                            *)

\* the indices of the rows of table t that belong to cost center kst
RowsOf(t, kst) == {i \in DOMAIN t.rows : t.rows[i][colKSt] = kst}

\* the exact total of column c over the rows S of table t
RECURSIVE TotalOver(_, _, _)
TotalOver(t, S, c) ==
    IF S = {} THEN Num(0)
    ELSE LET i == CHOOSE x \in S : TRUE
         IN  FAdd(t.rows[i][c], TotalOver(t, S \ {i}, c))

\* the finite cell x is the quotient num / den (den # 0)
IsQuotient(x, num, den) ==
    /\ IsFinite(x)
    /\ x.n * num.d * den.n = x.d * num.n * den.d

\* the sheet rows (by index in df) that are not of a reserved category
NotReserved(kst) ==
    {i \in RowsOf(df, kst) :
        /\ df.rows[i][colHilfsmittel] # "Alle Hilfsmittel"
        /\ df.rows[i][colHilfsmittel] # "08 - Einlagen"}

RatioPairs ==
    {<<colPctDBI, colDBI>>, <<colPctAP, colAPDBI>>,
     <<colPctMod, colMod>>, <<colPctMod0932, colMod0932>>}

\* the aggregated table carries its recomputed percent columns
Recomputed == pct_cols \subseteq df_filiale.cols

-----------------------------------------------------------------------------
(* C1 *)

\* C1: in the aggregated table every one of the four percent columns of a
\* cost center equals (total of the numerator column over the cost center's
\* rows) / (total of Umsatz over these rows), for every cost center whose
\* Umsatz total is not 0 (the quotient is not defined otherwise).
C1_RatioOfSums ==
    Recomputed =>
        \A g \in DOMAIN df_filiale.rows : \A p \in RatioPairs :
            LET S == RowsOf(df_clean, df_filiale.rows[g][colKSt])
                num == TotalOver(df_clean, S, p[2])
                den == TotalOver(df_clean, S, colUmsatz)
            IN  den.n # 0 => IsQuotient(df_filiale.rows[g][p[1]], num, den)

\* a cost center of two or more rows whose recomputed DB I % is neither the
\* sum nor the mean of its rows' DB I %
C1_Witness ==
    /\ Recomputed
    /\ \E g \in DOMAIN df_filiale.rows :
          LET S == RowsOf(df_clean, df_filiale.rows[g][colKSt])
              sum == TotalOver(df_clean, S, colPctDBI)
              mean == FDiv(sum, Num(Cardinality(S)))
          IN  /\ Cardinality(S) >= 2
              /\ IsFinite(sum)
              /\ IsFinite(df_filiale.rows[g][colPctDBI])
              /\ df_filiale.rows[g][colPctDBI] # sum
              /\ df_filiale.rows[g][colPctDBI] # mean

-----------------------------------------------------------------------------
(* C2 *)

\* C2: every percent column is missing (NaN) on every row whose Umsatz is 0,
\* in the row-level table and in the aggregated table.
C2_ZeroUmsatzGivesNull ==
    /\ \A i \in DOMAIN df_clean.rows : \A c \in pct_cols \cap df_clean.cols :
          df_clean.rows[i][colUmsatz] = Num(0) => IsNull(df_clean.rows[i][c])
    /\ \A g \in DOMAIN df_filiale.rows : \A c \in pct_cols \cap df_filiale.cols :
          df_filiale.rows[g][colUmsatz] = Num(0) => IsNull(df_filiale.rows[g][c])

-----------------------------------------------------------------------------
(* C3 *)

\* the branch names of the rows of cost center kst that are kept, by index
BranchAt(i) == df.rows[i][colFiliale]

\* how many kept rows of the cost center carry branch name b
Frequency(kst, b) == Cardinality({i \in NotReserved(kst) : BranchAt(i) = b})

\* the most frequent branch names among the kept rows of the cost center
MostFrequent(kst) ==
    {b \in {BranchAt(i) : i \in NotReserved(kst)} \ {NullStr} :
        \A i \in NotReserved(kst) :
            BranchAt(i) # NullStr => Frequency(kst, BranchAt(i)) <= Frequency(kst, b)}

\* the index of the first kept row that carries branch name b
FirstIndex(kst, b) ==
    CHOOSE i \in NotReserved(kst) :
        /\ BranchAt(i) = b
        /\ \A j \in NotReserved(kst) : BranchAt(j) = b => i <= j

\* the aggregated table carries its representative Filiale
Labelled == colFiliale \in df_filiale.cols

\* C3 as amended: the representative Filiale of a cost center is a most
\* frequent branch name among the cost center's kept rows, and of several
\* equally frequent names it is the smallest in string order.
C3_ModeSmallestOnTie ==
    Labelled =>
        \A g \in DOMAIN df_filiale.rows :
            LET kst == df_filiale.rows[g][colKSt]
                label == df_filiale.rows[g][colFiliale]
            IN  /\ label \in MostFrequent(kst)
                /\ \A b \in MostFrequent(kst) \ {label} : StrLess(label, b)

\* C3 as claimed: of several equally frequent names the representative is
\* the one that occurs first in row order.
C3_ModeFirstOccurrenceOnTie ==
    Labelled =>
        \A g \in DOMAIN df_filiale.rows :
            LET kst == df_filiale.rows[g][colKSt]
                label == df_filiale.rows[g][colFiliale]
            IN  /\ label \in MostFrequent(kst)
                /\ \A b \in MostFrequent(kst) :
                      FirstIndex(kst, label) <= FirstIndex(kst, b)

\* a labelled cost center with two equally frequent branch names of which
\* the smaller one, the label, is not the one that occurs first
C3_Witness ==
    /\ Labelled
    /\ \E g \in DOMAIN df_filiale.rows :
          LET kst == df_filiale.rows[g][colKSt]
          IN  /\ Cardinality(MostFrequent(kst)) >= 2
              /\ \E b \in MostFrequent(kst) :
                    FirstIndex(kst, b) < FirstIndex(kst, df_filiale.rows[g][colFiliale])

-----------------------------------------------------------------------------
(* C4 *)

\* the merged table carries Aufwendungen final
Finalised == colFinal \in df_merged.cols

\* the aggregated row of the cost center of merged row m
AggregatedRow(m) ==
    df_filiale.rows[CHOOSE g \in DOMAIN df_filiale.rows :
                        df_filiale.rows[g][colKSt] = m[colKSt]]

\* the integer f is a nearest integer to u * (1 - ratio) + a
IsNearest(f, u, ratio, a) ==
    LET den == u.d * ratio.d * a.d
        num == u.n * (ratio.d - ratio.n) * a.d + a.n * u.d * ratio.d
    IN  /\ IsFinite(f)
        /\ f.d = 1
        /\ 2 * Abs(f.n * den - num) <= den

\* C4: on every row of the merged table whose recomputed DB I %
\* Modifikationen is a finite number, Aufwendungen final is a whole number
\* nearest to Umsatzerlöse * (1 - DB I % Modifikationen) + Aufwendungen für
\* bez. Lfg. und Lst., the two columns being the zero-filled ones of the row.
C4_AufwendungenFinal ==
    Finalised =>
        \A i \in DOMAIN df_merged.rows :
            LET m == df_merged.rows[i]
                ratio == AggregatedRow(m)[colPctMod]
            IN  IsFinite(ratio) =>
                    IsNearest(m[colFinal], m[colUmsatzerloese], ratio, m[colAufwendungen])

\* a merged row whose exact value is no whole number and lies nearer to
\* the next whole number above, which is the row's Aufwendungen final
C4_Witness ==
    /\ Finalised
    /\ \E i \in DOMAIN df_merged.rows :
          LET m == df_merged.rows[i]
              ratio == AggregatedRow(m)[colPctMod]
          IN  /\ IsFinite(ratio)
              /\ m[colUmsatzerloese] # Num(0)
              /\ IsFinite(m[colFinal])
              /\ LET up == FSub(m[colFinal],
                                FAdd(FMul(m[colUmsatzerloese], FSub(Num(1), ratio)),
                                     m[colAufwendungen]))
                 IN  up.n > 0 /\ 2 * up.n < up.d

-----------------------------------------------------------------------------
(* C5 *)

\* the reshaped Addison table exists
ReshapedReady == colUmsatzerloeseKum \in df2_new.cols

\* cost center kst has no row in the reshaped Addison table
Unmatched(kst) == \A j \in DOMAIN df2_new.rows : df2_new.rows[j][colKSt] # kst

\* C5: once the aggregated TopM table and the reshaped Addison table exist,
\* the run ends with a final table that has a row for every aggregated cost
\* center, and on the row of a cost center without Addison row the columns
\* Umsatzerlöse and Aufwendungen für bez. Lfg. und Lst. are 0 and
\* Rohergebnis is missing or absent.
C5_LeftOuterZeroFilled ==
    (pc \in {"done", "failed"} /\ ReshapedReady) =>
        \A g \in DOMAIN df_filiale.rows :
            \E i \in DOMAIN df_merged.rows :
                LET m == df_merged.rows[i]
                IN  /\ m[colKSt] = df_filiale.rows[g][colKSt]
                    /\ colFinal \in DOMAIN m
                    /\ Unmatched(m[colKSt]) =>
                          /\ m[colUmsatzerloese] = Num(0)
                          /\ m[colAufwendungen] = Num(0)
                          /\ (colRohergebnis \in DOMAIN m => IsNull(m[colRohergebnis]))

-----------------------------------------------------------------------------
(* C6 *)

\* C6: on every kept row Modifikationen is AP DB I mit FP for the categories
\* 10 and 18 and DB I otherwise; Modifikationen 09 & 32 is 0.80 * Umsatz for
\* the categories 09 and 32 and Modifikationen otherwise.
C6_LayeredOverride ==
    colMod0932 \in df_clean.cols =>
        \A i \in DOMAIN df_clean.rows :
            LET r == df_clean.rows[i]
                setA == r[colHilfsmittel] \in
                            {"10 - Gehhilfen", "18 - Kranken-/ Behindertenfahrzeuge"}
                setB == r[colHilfsmittel] \in
                            {"09 - Elektrostimulationsgeräte",
                             "32 - Therapeutische Bewegungsgeräte"}
            IN  /\ r[colMod] = (IF setA THEN r[colAPDBI] ELSE r[colDBI])
                /\ setB => /\ IsFinite(r[colMod0932])
                           /\ 5 * r[colMod0932].n * r[colUmsatz].d
                                 = 4 * r[colUmsatz].n * r[colMod0932].d
                /\ ~setB => r[colMod0932] = r[colMod]

\* a row of category 10 whose AP DB I mit FP differs from its DB I, and a
\* row of category 09 whose 0.80 * Umsatz differs from its Modifikationen
C6_Witness ==
    /\ colMod0932 \in df_clean.cols
    /\ \E i \in DOMAIN df_clean.rows :
          /\ df_clean.rows[i][colHilfsmittel] = "10 - Gehhilfen"
          /\ df_clean.rows[i][colAPDBI] # df_clean.rows[i][colDBI]
    /\ \E i \in DOMAIN df_clean.rows :
          /\ df_clean.rows[i][colHilfsmittel] = "09 - Elektrostimulationsgeräte"
          /\ df_clean.rows[i][colMod0932] # df_clean.rows[i][colMod]

-----------------------------------------------------------------------------
(* C7 *)

\* the required columns the TopM sheet lacks
MissingCols == RequiredCols \ Range(topmFile.header)

\* C7: a run on a sheet that lacks required columns fails with a
\* SchemaError that lists exactly the missing columns, before any derived
\* column is computed.
C7_SchemaErrorBeforeArithmetic ==
    (pc = "failed" /\ topmFile.readable /\ Len(topmFile.header) >= 2 /\ MissingCols # {}) =>
        /\ error.kind = "SchemaError"
        /\ error.cols = MissingCols
        /\ df_clean.cols \cap pct_cols = {}

-----------------------------------------------------------------------------
(* C8 *)

\* C8: a run that fails has not written or changed the output file.
C8_NoOutputOnFailure == pc = "failed" => outFile \in {NoFile, OldFile}

-----------------------------------------------------------------------------
(* C9 *)

\* C9: no row is written to the output file whose Aufwendungen final is
\* missing or not finite.
C9_NoNullFinalEmitted ==
    (outFile.exists /\ colFinal \in Range(outFile.header)) =>
        \A i \in DOMAIN outFile.rows : IsFinite(outFile.rows[i][colFinal])

-----------------------------------------------------------------------------
(* C10 *)

\* the total of the whole-number column c over the sheet rows S
RECURSIVE SheetTotal(_, _)
SheetTotal(S, c) ==
    IF S = {} THEN 0
    ELSE LET i == CHOOSE x \in S : TRUE
         IN  df.rows[i][c].n + SheetTotal(S \ {i}, c)

\* the cost centers of the sheet rows that are not of a reserved category
KeptKSt == {df.rows[i][colKSt] : i \in {j \in DOMAIN df.rows : j \in NotReserved(df.rows[j][colKSt])}}

\* C10: the aggregated table has exactly the cost centers of the rows that
\* are not of a reserved category; its sums, its recomputed DB I % and its
\* representative Filiale are those of these rows alone.
C10_ReservedRowsDropped ==
    df_filiale.cols # {} =>
        /\ {df_filiale.rows[g][colKSt] : g \in DOMAIN df_filiale.rows} = KeptKSt
        /\ \A g \in DOMAIN df_filiale.rows :
              LET a == df_filiale.rows[g]
                  S == NotReserved(a[colKSt])
              IN  /\ \A c \in {colUmsatz, colDBI, colAPDBI} : a[c] = Num(SheetTotal(S, c))
                  /\ (Recomputed /\ SheetTotal(S, colUmsatz) # 0) =>
                        IsQuotient(a[colPctDBI], Num(SheetTotal(S, colDBI)),
                                   Num(SheetTotal(S, colUmsatz)))
                  /\ Labelled => a[colFiliale] \in {BranchAt(i) : i \in S}

\* an aggregated cost center that also has a reserved row with Umsatz, and
\* a cost center of reserved rows only, absent from the aggregated table
C10_Witness ==
    /\ Labelled
    /\ \E i \in DOMAIN df.rows :
          /\ df.rows[i][colHilfsmittel] \in {"Alle Hilfsmittel", "08 - Einlagen"}
          /\ df.rows[i][colUmsatz] # Num(0)
          /\ df.rows[i][colKSt] \in KeptKSt
    /\ \E i \in DOMAIN df.rows : df.rows[i][colKSt] \notin KeptKSt

=============================================================================
